---- MODULE Spec2Model ----
(***************************************************************************)
(* koishi-plugin-chat-model: the message middleware, the message handler,  *)
(* the context store and the usage limiter, as a state machine.            *)
(*                                                                         *)
(* A message is processed in steps; every step runs from one await of the  *)
(* code to the next.  A storage call (database.get/set/create) is issued   *)
(* at the end of a step and takes effect, atomically, in the next one.     *)
(* Strings are sequences of characters or tokens, so that startsWith,      *)
(* substring, trim and the template strings are computed, not assumed.     *)
(* Left out: the updatedAt timestamps, session._handled, the log calls and  *)
(* the optional "thinking" message (config.showThinkingMessage).           *)
(*                                                                         *)
(* Spec: one message at a time, the prefix "!" configured, contextSize    *)
(* and the usage limit ranging over their bounds.  SpecGate: every         *)
(* configuration of the trigger gate.  SpecConcurrent: two messages in     *)
(* flight.  SpecFaulty: a database that may reject any call.               *)
(* SpecAdapters: the methods of the three built-in adapters on their own.  *)
(* SpecCapLoop: the cap loop one iteration at a time, any contextSize.     *)
(* SpecConcurrentUsage: two messages in flight with the usage limit on.    *)
(***************************************************************************)
EXTENDS Integers, Sequences, FiniteSets, TLC

\* ------------------------------------------------------------------ bounds
MaxN == 1          \* contextSize ranges over 0..MaxN
MaxM == 2          \* usageLimit.maxMessagesPerUser ranges over 0..MaxM
MaxDay == 2        \* calendar dates 1..MaxDay
MaxCount == 3      \* no message is received once a dailyCount reached it

\* ------------------------------------------------------- program constants
DefaultMaxMessages == 100
FullRatio == 100

\* -------------------------------------------------------------- identities
SelfId == "bot"
Users == {"u1"}
Ids == Users \cup {SelfId}
GroupChannel == "g1"
Channels(u) == {u, GroupChannel}

\* ------------------------------------------------------------------ strings
EmptyStr == << >>
Prefixes == {EmptyStr, <<"!">>}
\* session.content: empty, blank, prefixed with text, prefixed with a blank
RawContents == {EmptyStr, <<" ">>, <<"!", " ", "a">>, <<"!", " ">>}
Prompts == {<<"P">>, <<"Q">>}
Responses == {<<"r">>, EmptyStr}
\* new Error('响应超时'): the handler's own timeout
TimeoutMessage == <<"response timed out">>
Errors == {TimeoutMessage, <<"API request failed: 500">>}
Draws == {0, 50, 99}
Ratios == {0, 50, FullRatio}

\* '今日对话次数已达上限，请明天再来'
LimitNotice == <<"daily limit reached">>

startsWith(s, pre) ==
  /\ Len(pre) <= Len(s)
  /\ \A i \in 1..Len(pre) : s[i] = pre[i]

substring(s, n) == IF n >= Len(s) THEN EmptyStr ELSE SubSeq(s, n + 1, Len(s))

RECURSIVE trimStart(_)
trimStart(s) ==
  IF s # EmptyStr /\ Head(s) = " " THEN trimStart(Tail(s)) ELSE s

RECURSIVE trimEnd(_)
trimEnd(s) ==
  IF s # EmptyStr /\ s[Len(s)] = " " THEN trimEnd(SubSeq(s, 1, Len(s) - 1)) ELSE s

trim(s) == trimEnd(trimStart(s))

\* `抱歉，生成回复时发生错误: ${error.message}`
Apology(message) == <<"sorry, generating the reply failed: ">> \o message

\* ------------------------------------------------------------------- turns
Turn(r, c) == [role |-> r, content |-> c]

\* Array.prototype.splice(1, 2): removes the elements at (0-based) indices 1
\* and 2, as far as they exist.
splice_1_2(a) ==
  IF Len(a) <= 1 THEN a
  ELSE IF Len(a) = 2 THEN <<a[1]>>
  ELSE <<a[1]>> \o SubSeq(a, 4, Len(a))

\* while (userContext.length > config.contextSize * 2 + 1) userContext.splice(1, 2)
RECURSIVE limitContext(_, _)
limitContext(a, n) ==
  IF Len(a) > n * 2 + 1
  THEN limitContext(splice_1_2(a), n)
  ELSE a

\* ensureSystemPrompt, leaving a stored system entry as it is.
ensureSystemPrompt_keepsStored(a, prompt) ==
  IF Len(a) = 0 \/ a[1].role # "system"
  THEN <<Turn("system", prompt)>> \o a
  ELSE a

\* The system prompt is made the first message: inserted, or its content overwritten.
ensureSystemPrompt(a, prompt) ==
  IF Len(a) = 0 \/ a[1].role # "system"
  THEN <<Turn("system", prompt)>> \o a
  ELSE [a EXCEPT ![1].content = prompt]

\* createMessageHandler, from the loaded context to the call of the model.
prepareContext(loaded, content, n, prompt) ==
  ensureSystemPrompt(limitContext(Append(loaded, Turn("user", content)), n), prompt)

\* ------------------------------------------------------------------- state
VARIABLES
  contextSize,      \* config.contextSize
  systemPrompt,     \* config.systemPrompt
  triggerRatio,     \* config.triggerRatio
  triggerPrefix,    \* config.triggerPrefix (EmptyStr: not configured)
  triggerPrivate,   \* config.triggerPrivate
  triggerGroup,     \* config.triggerGroup
  usageEnabled,     \* config.usageLimit.enabled
  maxMessagesPerUser, \* config.usageLimit.maxMessagesPerUser
  chatModelContext, \* table chatModelContext, by userId
  chatModelUsage,   \* table chatModelUsage, by userId
  today,            \* new Date().toISOString().split('T')[0]
  cleared,          \* by userId: the last write of the user's context was a clear
  usesToday,        \* by userId: the uses updateUsageCount recorded for today's date
  sess,             \* the messages being processed, each at one await
  adapterCall       \* the last call of an adapter method: its input and result

config == <<contextSize, triggerRatio, triggerPrefix, triggerPrivate,
            triggerGroup, usageEnabled, maxMessagesPerUser>>
vars == <<contextSize, systemPrompt, triggerRatio, triggerPrefix, triggerPrivate,
          triggerGroup, usageEnabled, maxMessagesPerUser, chatModelContext,
          chatModelUsage, today, cleared, usesToday, sess, adapterCall>>

NoContextRecord == [exists |-> FALSE, context |-> << >>]
NoUsageRecord == [exists |-> FALSE, dailyCount |-> 0, lastResetDate |-> 0]
\* A write of chatModelUsage that was issued and has not taken effect yet:
\* op is "create" or "set"; lastResetDate 0 means the patch leaves the date alone.
NoUsageWrite == [op |-> "none", dailyCount |-> 0, lastResetDate |-> 0]

\* A message that is not being processed.  userContext, reply and usageWrite are
\* locals of the code; the fields from loaded on record what the processing of
\* this message read and did.  late: the generateResponse promise of this
\* message lost the race and is "pending", or has settled since ("discarded");
\* failed: the storage step of this message that the database rejected;
\* iteration: the parity of the iterations the cap loop has made.
Idle ==
  [pc |-> "idle", userId |-> SelfId, channelId |-> SelfId, rawContent |-> EmptyStr,
   handled |-> FALSE, content |-> EmptyStr, userContext |-> << >>,
   reply |-> EmptyStr, today |-> 0, usageWrite |-> NoUsageWrite,
   loaded |-> << >>, prompt |-> EmptyStr, afterClear |-> FALSE,
   invoked |-> FALSE, error |-> EmptyStr, saved |-> FALSE, sent |-> << >>,
   recorded |-> 0, late |-> "none", failed |-> "none", iteration |-> 0]

\* No adapter method has been called on its own.
NoCall ==
  [op |-> "none", adapter |-> "none", messages |-> << >>, system |-> EmptyStr,
   formatted |-> << >>, fetch |-> "none", status |-> "none", detail |-> EmptyStr,
   data |-> [candidate |-> FALSE, content |-> FALSE, finishReason |-> "none",
             text |-> EmptyStr],
   responseTimeout |-> 0, duration |-> 0,
   outcome |-> [kind |-> "none", text |-> EmptyStr]]

\* shouldIgnoreMessage, without the check of the bot's own identity.
shouldIgnoreMessage_noSelfCheck(userId, channelId) ==
  LET isPrivate == channelId = userId IN
    \/ isPrivate /\ ~triggerPrivate
    \/ ~isPrivate /\ ~triggerGroup

\* One message at a time, behind the prefix "!".
Init ==
  /\ contextSize \in 0..MaxN
  /\ systemPrompt \in Prompts
  /\ triggerRatio = FullRatio
  /\ triggerPrefix = <<"!">>
  /\ triggerPrivate = TRUE
  /\ triggerGroup = FALSE
  /\ usageEnabled \in BOOLEAN
  /\ maxMessagesPerUser \in 0..MaxM
  /\ (~usageEnabled => maxMessagesPerUser = MaxM)
  /\ chatModelContext = [u \in Ids |-> NoContextRecord]
  /\ chatModelUsage = [u \in Ids |-> NoUsageRecord]
  /\ today = 1
  /\ cleared = [u \in Ids |-> FALSE]
  /\ usesToday = [u \in Ids |-> 0]
  /\ sess = [p \in 1..1 |-> Idle]
  /\ adapterCall = NoCall

\* ------------------------------------------------------------ trigger gate
shouldIgnoreMessage(userId, channelId) ==
  LET isPrivate == channelId = userId IN
    \/ userId = SelfId
    \/ isPrivate /\ ~triggerPrivate
    \/ ~isPrivate /\ ~triggerGroup

\* config.triggerPrefix && !session.content.startsWith(config.triggerPrefix)
prefixMissing(raw) ==
  triggerPrefix # EmptyStr /\ ~startsWith(raw, triggerPrefix)

\* content.substring(config.triggerPrefix.length).trim(), with a prefix only
strippedContent(raw) ==
  IF triggerPrefix # EmptyStr THEN trim(substring(raw, Len(triggerPrefix))) ELSE raw

ratioRejects_inverted(draw) == draw < triggerRatio

\* config.triggerRatio < 100 && Math.random() * 100 > config.triggerRatio
ratioRejects(draw) == triggerRatio < FullRatio /\ draw > triggerRatio

\* The middleware returns before the usage check.
gateRejects(userId, channelId, raw, handled, draw) ==
  \/ handled
  \/ shouldIgnoreMessage(userId, channelId)
  \/ prefixMissing(raw)
  \/ strippedContent(raw) = EmptyStr
  \/ ratioRejects(draw)

\* The middleware up to its first storage call.
received(userId, channelId, raw, handled, draw) ==
  LET s == [Idle EXCEPT !.userId = userId, !.channelId = channelId,
                        !.rawContent = raw, !.handled = handled]
  IN IF gateRejects(userId, channelId, raw, handled, draw)
     THEN [s EXCEPT !.pc = "ignored"]
     ELSE [s EXCEPT !.content = strippedContent(raw),
                    !.pc = IF usageEnabled THEN "checkUsage" ELSE "getContext"]

Receive(p) ==
  /\ sess[p].pc = "idle"
  /\ \A u \in Ids : chatModelUsage[u].dailyCount < MaxCount
  /\ \E u \in Ids, raw \in RawContents, handled \in BOOLEAN, draw \in Draws :
       \E ch \in Channels(u) :
         sess' = [sess EXCEPT ![p] = received(u, ch, raw, handled, draw)]
  /\ UNCHANGED <<config, adapterCall, systemPrompt, chatModelContext, chatModelUsage, today, cleared, usesToday>>

\* ------------------------------------------------------------ usage limiter
\* underLimit, with the limit itself still allowed.
underLimit_inclusive(dailyCount, m) ==
  dailyCount <= (IF m = 0 THEN DefaultMaxMessages ELSE m)

\* config.usageLimit?.maxMessagesPerUser || 100: a configured 0 is falsy
effectiveLimit(m) == IF m = 0 THEN DefaultMaxMessages ELSE m

\* record.dailyCount < (config.usageLimit?.maxMessagesPerUser || 100)
underLimit(dailyCount, m) == dailyCount < effectiveLimit(m)

\* checkUsageLimit after its database.get: "allow", "reset" (a set is issued,
\* then allowed) or "deny".
checkUsageLimit(record, date, m) ==
  IF ~record.exists THEN "allow"
  ELSE IF record.lastResetDate # date THEN "reset"
  ELSE IF underLimit(record.dailyCount, m) THEN "allow"
  ELSE "deny"

\* database.set('chatModelUsage', {userId}, patch): patches the rows there are.
setUsage(record, write) ==
  IF ~record.exists THEN record
  ELSE [exists |-> TRUE,
        dailyCount |-> write.dailyCount,
        lastResetDate |-> IF write.lastResetDate = 0 THEN record.lastResetDate
                          ELSE write.lastResetDate]

CheckUsage(p) ==
  /\ sess[p].pc = "checkUsage"
  /\ LET verdict == checkUsageLimit(chatModelUsage[sess[p].userId], today,
                                     maxMessagesPerUser)
     IN sess' = [sess EXCEPT ![p] =
          IF verdict = "allow" THEN [@ EXCEPT !.pc = "getContext"]
          ELSE IF verdict = "reset"
          THEN [@ EXCEPT !.pc = "resetUsage", !.today = today,
                         !.usageWrite = [op |-> "set", dailyCount |-> 0,
                                         lastResetDate |-> today]]
          ELSE [@ EXCEPT !.pc = "limited", !.sent = Append(@, LimitNotice)]]
  /\ UNCHANGED <<config, adapterCall, systemPrompt, chatModelContext, chatModelUsage, today, cleared, usesToday>>

\* The set checkUsageLimit issued on a new date takes effect; it returns true.
ResetUsage(p) ==
  /\ sess[p].pc = "resetUsage"
  /\ chatModelUsage' = [chatModelUsage EXCEPT ![sess[p].userId] =
                           setUsage(@, sess[p].usageWrite)]
  /\ sess' = [sess EXCEPT ![p] = [@ EXCEPT !.pc = "getContext",
                                           !.usageWrite = NoUsageWrite]]
  /\ UNCHANGED <<config, adapterCall, systemPrompt, chatModelContext, today, cleared, usesToday>>

\* updateUsageCount after its database.get: the write it issues.  `date` was
\* computed before the get.
updateUsageCount(record, date) ==
  IF ~record.exists
  THEN [op |-> "create", dailyCount |-> 1, lastResetDate |-> date]
  ELSE IF record.lastResetDate # date
  THEN [op |-> "set", dailyCount |-> 1, lastResetDate |-> date]
  ELSE [op |-> "set", dailyCount |-> record.dailyCount + 1, lastResetDate |-> 0]

\* ------------------------------------------------------------ context store
\* getUserContext: record[0].context || [], or [] without a record
getUserContext(record) == IF record.exists THEN record.context ELSE << >>

\* clearUserContext, removing the record instead of emptying it.
clearUserContext_removes(record) == [exists |-> FALSE, context |-> << >>]

\* clearUserContext: database.set(..., {context: []}) patches the rows there are.
clearUserContext(record) ==
  IF record.exists THEN [record EXCEPT !.context = << >>] ELSE record

\* a primary key that exists already: database.create rejects
DuplicateMessage == <<"duplicate entry">>
\* `处理消息时出错: ${error.message}`
ProcessingError(message) == <<"error while processing the message: ">> \o message

\* ---------------------------------------------------------- message handler
\* The middleware after the handler returned `reply`: nothing is sent for an
\* empty reply; otherwise session.send(reply) is awaited.
handlerReturned(s, reply) ==
  [s EXCEPT !.reply = reply, !.pc = IF reply = EmptyStr THEN "noReply" ELSE "send"]

\* getUserContext resolves; the user turn is pushed, the context limited, the
\* system prompt ensured, and generateResponse is called.
GetContext(p) ==
  /\ sess[p].pc = "getContext"
  /\ sess' = [sess EXCEPT ![p] =
       [@ EXCEPT !.pc = "generate",
                 !.userContext = prepareContext(
                    getUserContext(chatModelContext[sess[p].userId]),
                    sess[p].content, contextSize, systemPrompt),
                 !.loaded = getUserContext(chatModelContext[sess[p].userId]),
                 !.prompt = systemPrompt,
                 !.afterClear = cleared[sess[p].userId],
                 !.invoked = TRUE]]
  /\ UNCHANGED <<config, adapterCall, systemPrompt, chatModelContext, chatModelUsage, today, cleared, usesToday>>

\* The race is won by generateResponse: the assistant turn is pushed and
\* saveUserContext issues its database.set.
GenerateResponse(p) ==
  /\ sess[p].pc = "generate"
  /\ \E response \in Responses :
       sess' = [sess EXCEPT ![p] =
         [@ EXCEPT !.pc = "saveSet", !.reply = response,
                   !.userContext = Append(@, Turn("assistant", response))]]
  /\ UNCHANGED <<config, adapterCall, systemPrompt, chatModelContext, chatModelUsage, today, cleared, usesToday>>

\* GenerateFails, with the context saved before the model is awaited: the
\* unanswered user turn is stored.
GenerateFails_storesUserTurn(p) ==
  /\ sess[p].pc = "generate"
  /\ \E message \in Errors :
       sess' = [sess EXCEPT ![p] =
         handlerReturned([@ EXCEPT !.error = message], Apology(message))]
  /\ chatModelContext' = [chatModelContext EXCEPT ![sess[p].userId] =
       [exists |-> TRUE, context |-> sess[p].userContext]]
  /\ UNCHANGED <<config, adapterCall, systemPrompt, chatModelUsage, today, cleared, usesToday>>

\* generateResponse rejects, or the handler's timeout wins the race: the catch
\* block returns the apology.
GenerateFails(p) ==
  /\ sess[p].pc = "generate"
  /\ \E message \in Errors :
       sess' = [sess EXCEPT ![p] =
         handlerReturned([@ EXCEPT !.error = message,
                                   !.late = IF message = TimeoutMessage
                                            THEN "pending" ELSE "none"],
                         Apology(message))]
  /\ UNCHANGED <<config, adapterCall, systemPrompt, chatModelContext, chatModelUsage, today, cleared, usesToday>>

\* LateResult, with the continuation of the try block run on the late
\* response: the assistant turn is pushed and stored, the response sent.
LateResult_continues(p) ==
  /\ sess[p].late = "pending"
  /\ \E response \in Responses :
       /\ sess' = [sess EXCEPT ![p] =
            [@ EXCEPT !.late = "discarded", !.sent = Append(@, response)]]
       /\ chatModelContext' = [chatModelContext EXCEPT ![sess[p].userId] =
            [exists |-> TRUE,
             context |-> Append(sess[p].userContext, Turn("assistant", response))]]
  /\ UNCHANGED <<config, adapterCall, systemPrompt, chatModelUsage, today, cleared, usesToday>>

\* generateResponse settles after the handler's timeout has won the race:
\* Promise.race has settled already, nothing awaits the result.
LateResult(p) ==
  /\ sess[p].late = "pending"
  /\ \E result \in Responses \cup Errors :
       sess' = [sess EXCEPT ![p] = [@ EXCEPT !.late = "discarded"]]
  /\ UNCHANGED <<config, adapterCall, systemPrompt, chatModelContext, chatModelUsage, today, cleared, usesToday>>

\* saveUserContext: database.set takes effect; with no row updated a create
\* is issued, otherwise the handler returns the response.
SaveSet(p) ==
  /\ sess[p].pc = "saveSet"
  /\ LET u == sess[p].userId IN
       IF chatModelContext[u].exists
       THEN /\ chatModelContext' = [chatModelContext EXCEPT ![u].context =
                                      sess[p].userContext]
            /\ cleared' = [cleared EXCEPT ![u] = FALSE]
            /\ sess' = [sess EXCEPT ![p] =
                 handlerReturned([@ EXCEPT !.saved = TRUE], sess[p].reply)]
       ELSE /\ sess' = [sess EXCEPT ![p] = [@ EXCEPT !.pc = "saveCreate"]]
            /\ UNCHANGED <<chatModelContext, cleared>>
  /\ UNCHANGED <<config, adapterCall, systemPrompt, chatModelUsage, today, usesToday>>

\* saveUserContext: database.create takes effect, or rejects when the record
\* was created in the meantime; the handler's catch block returns the apology.
SaveCreate(p) ==
  /\ sess[p].pc = "saveCreate"
  /\ LET u == sess[p].userId IN
       IF chatModelContext[u].exists
       THEN /\ sess' = [sess EXCEPT ![p] =
                 handlerReturned([@ EXCEPT !.error = DuplicateMessage],
                                 Apology(DuplicateMessage))]
            /\ UNCHANGED <<chatModelContext, cleared>>
       ELSE /\ chatModelContext' = [chatModelContext EXCEPT ![u] =
                 [exists |-> TRUE, context |-> sess[p].userContext]]
            /\ cleared' = [cleared EXCEPT ![u] = FALSE]
            /\ sess' = [sess EXCEPT ![p] =
                 handlerReturned([@ EXCEPT !.saved = TRUE], sess[p].reply)]
  /\ UNCHANGED <<config, adapterCall, systemPrompt, chatModelUsage, today, usesToday>>

\* session.send(reply) resolves; with usage limiting enabled updateUsageCount
\* computes today and issues its database.get.
SendReply(p) ==
  /\ sess[p].pc = "send"
  /\ sess' = [sess EXCEPT ![p] =
       [@ EXCEPT !.sent = Append(@, sess[p].reply),
                 !.today = IF usageEnabled THEN today ELSE 0,
                 !.pc = IF usageEnabled THEN "updateGet" ELSE "done"]]
  /\ UNCHANGED <<config, adapterCall, systemPrompt, chatModelContext, chatModelUsage, today, cleared, usesToday>>

\* updateUsageCount: its database.get resolves and it issues its write.
UpdateGet(p) ==
  /\ sess[p].pc = "updateGet"
  /\ sess' = [sess EXCEPT ![p] =
       [@ EXCEPT !.pc = "updateWrite",
                 !.usageWrite = updateUsageCount(chatModelUsage[sess[p].userId],
                                                 sess[p].today)]]
  /\ UNCHANGED <<config, adapterCall, systemPrompt, chatModelContext, chatModelUsage, today, cleared, usesToday>>

\* updateUsageCount: its write takes effect.  A create of a record that exists
\* rejects, and the middleware's catch block sends the error.
UpdateWrite(p) ==
  /\ sess[p].pc = "updateWrite"
  /\ LET u == sess[p].userId
         w == sess[p].usageWrite
     IN IF w.op = "create" /\ chatModelUsage[u].exists
        THEN /\ sess' = [sess EXCEPT ![p] =
                  [@ EXCEPT !.pc = "done", !.usageWrite = NoUsageWrite,
                            !.sent = Append(@, ProcessingError(DuplicateMessage))]]
             /\ UNCHANGED <<chatModelUsage, usesToday>>
        ELSE /\ chatModelUsage' = [chatModelUsage EXCEPT ![u] =
                  IF w.op = "create"
                  THEN [exists |-> TRUE, dailyCount |-> w.dailyCount,
                        lastResetDate |-> w.lastResetDate]
                  ELSE setUsage(@, w)]
             /\ sess' = [sess EXCEPT ![p] =
                  [@ EXCEPT !.pc = "done", !.usageWrite = NoUsageWrite,
                            !.recorded = @ + 1]]
             /\ usesToday' = [usesToday EXCEPT ![u] =
                  IF sess[p].today = today THEN @ + 1 ELSE @]
  /\ UNCHANGED <<config, adapterCall, systemPrompt, chatModelContext, today, cleared>>

\* the message of an error the database rejects a call with
StorageMessage == <<"database unavailable">>

\* The storage call a message is waiting for.
storageStep(pc) ==
  CASE pc \in {"checkUsage", "resetUsage"} -> "usage check"
    [] pc = "getContext" -> "context load"
    [] pc \in {"saveSet", "saveCreate"} -> "context save"
    [] pc \in {"updateGet", "updateWrite"} -> "usage update"
    [] OTHER -> "none"

\* The database rejects the call the message is waiting for.  checkUsageLimit
\* is awaited before the middleware's try block: its rejection leaves the
\* middleware as an exception.  saveUserContext is awaited inside the
\* handler's try block: its catch returns the apology.  getUserContext and
\* updateUsageCount are awaited inside the middleware's try block only: its
\* catch sends the processing error.
StorageFails(p) ==
  /\ storageStep(sess[p].pc) # "none"
  /\ sess' = [sess EXCEPT ![p] =
       LET s == [@ EXCEPT !.failed = storageStep(sess[p].pc),
                          !.error = StorageMessage,
                          !.usageWrite = NoUsageWrite]
       IN IF s.failed = "usage check" THEN [s EXCEPT !.pc = "thrown"]
          ELSE IF s.failed = "context save"
            THEN handlerReturned(s, Apology(StorageMessage))
          ELSE [s EXCEPT !.pc = "done",
                         !.sent = Append(@, ProcessingError(StorageMessage))]]
  /\ UNCHANGED <<config, adapterCall, systemPrompt, chatModelContext, chatModelUsage, today, cleared, usesToday>>

\* The middleware has returned, or has thrown.
Finished == {"ignored", "limited", "noReply", "done", "thrown"}

Finish(p) ==
  /\ sess[p].pc \in Finished
  /\ sess[p].late # "pending"
  /\ sess' = [sess EXCEPT ![p] = Idle]
  /\ UNCHANGED <<config, adapterCall, systemPrompt, chatModelContext, chatModelUsage, today, cleared, usesToday>>

\* The command that clears the caller's context.
ClearContext(u) ==
  /\ chatModelContext' = [chatModelContext EXCEPT ![u] = clearUserContext(@)]
  /\ cleared' = [cleared EXCEPT ![u] = TRUE]
  /\ UNCHANGED <<config, adapterCall, systemPrompt, chatModelUsage, today, usesToday, sess>>

\* Midnight (UTC) passes.
NextDay ==
  /\ today < MaxDay
  /\ today' = today + 1
  /\ usesToday' = [u \in Ids |-> 0]
  /\ UNCHANGED <<config, adapterCall, systemPrompt, chatModelContext, chatModelUsage, cleared, sess>>

\* The plugin is stopped and applied again with another system prompt; a
\* handler keeps the config object it was created with, so messages see the
\* new prompt from the next one on.
Reconfigure ==
  /\ \A p \in DOMAIN sess : sess[p].pc = "idle"
  /\ \E prompt \in Prompts \ {systemPrompt} : systemPrompt' = prompt
  /\ UNCHANGED <<config, adapterCall, chatModelContext, chatModelUsage, today, cleared, usesToday, sess>>

Next ==
  \/ \E p \in DOMAIN sess : Receive(p)
  \/ \E p \in DOMAIN sess : CheckUsage(p)
  \/ \E p \in DOMAIN sess : ResetUsage(p)
  \/ \E p \in DOMAIN sess : GetContext(p)
  \/ \E p \in DOMAIN sess : GenerateResponse(p)
  \/ \E p \in DOMAIN sess : GenerateFails(p)
  \/ \E p \in DOMAIN sess : LateResult(p)
  \/ \E p \in DOMAIN sess : SaveSet(p)
  \/ \E p \in DOMAIN sess : SaveCreate(p)
  \/ \E p \in DOMAIN sess : SendReply(p)
  \/ \E p \in DOMAIN sess : UpdateGet(p)
  \/ \E p \in DOMAIN sess : UpdateWrite(p)
  \/ \E p \in DOMAIN sess : Finish(p)
  \/ \E u \in Users : ClearContext(u)
  \/ NextDay
  \/ Reconfigure

Spec == Init /\ [][Next]_vars

\* The same program under every configuration of the trigger gate.
InitGate ==
  /\ contextSize = 1
  /\ systemPrompt \in Prompts
  /\ triggerRatio \in Ratios
  /\ triggerPrefix \in Prefixes
  /\ triggerPrivate \in BOOLEAN
  /\ triggerGroup \in BOOLEAN
  /\ usageEnabled \in BOOLEAN
  /\ maxMessagesPerUser = 1
  /\ chatModelContext = [u \in Ids |-> NoContextRecord]
  /\ chatModelUsage = [u \in Ids |-> NoUsageRecord]
  /\ today = 1
  /\ cleared = [u \in Ids |-> FALSE]
  /\ usesToday = [u \in Ids |-> 0]
  /\ sess = [p \in 1..1 |-> Idle]
  /\ adapterCall = NoCall

SpecGate == InitGate /\ [][Next]_vars

\* Two messages in flight at once: every await of one may interleave with the
\* steps of the other.
InitConcurrent ==
  /\ contextSize = 1
  /\ systemPrompt = <<"P">>
  /\ triggerRatio = FullRatio
  /\ triggerPrefix = EmptyStr
  /\ triggerPrivate = TRUE
  /\ triggerGroup = FALSE
  /\ usageEnabled = FALSE
  /\ maxMessagesPerUser = 1
  /\ chatModelContext = [u \in Ids |-> NoContextRecord]
  /\ chatModelUsage = [u \in Ids |-> NoUsageRecord]
  /\ today = 1
  /\ cleared = [u \in Ids |-> FALSE]
  /\ usesToday = [u \in Ids |-> 0]
  /\ sess = [p \in 1..2 |-> Idle]
  /\ adapterCall = NoCall

\* The steps of a message when usage limiting is off.
NextConcurrent ==
  \/ \E p \in DOMAIN sess : Receive(p)
  \/ \E p \in DOMAIN sess : GetContext(p)
  \/ \E p \in DOMAIN sess : GenerateResponse(p)
  \/ \E p \in DOMAIN sess : GenerateFails(p)
  \/ \E p \in DOMAIN sess : LateResult(p)
  \/ \E p \in DOMAIN sess : SaveSet(p)
  \/ \E p \in DOMAIN sess : SaveCreate(p)
  \/ \E p \in DOMAIN sess : SendReply(p)
  \/ \E p \in DOMAIN sess : Finish(p)

SpecConcurrent == InitConcurrent /\ [][NextConcurrent]_vars

\* One message at a time against a database that may reject any call.
InitFaulty ==
  /\ contextSize = 1
  /\ systemPrompt = <<"P">>
  /\ triggerRatio = FullRatio
  /\ triggerPrefix = EmptyStr
  /\ triggerPrivate = TRUE
  /\ triggerGroup = FALSE
  /\ usageEnabled = TRUE
  /\ maxMessagesPerUser = 1
  /\ chatModelContext = [u \in Ids |-> NoContextRecord]
  /\ chatModelUsage = [u \in Ids |-> NoUsageRecord]
  /\ today = 1
  /\ cleared = [u \in Ids |-> FALSE]
  /\ usesToday = [u \in Ids |-> 0]
  /\ sess = [p \in 1..1 |-> Idle]
  /\ adapterCall = NoCall

NextFaulty ==
  \/ Next
  \/ \E p \in DOMAIN sess : StorageFails(p)

SpecFaulty == InitFaulty /\ [][NextFaulty]_vars

\* ----------------------------------------------------------------- adapters
\* The adapter methods on their own: a call starts with its input in
\* adapterCall and the method records its result there.
MaxTurns == 3      \* formatMessages is called with 0..MaxTurns turns
Roles == {"system", "user", "assistant", "tool"}
Contents == {EmptyStr, <<"S">>, <<"hi">>}
Turns == {Turn(r, c) : r \in Roles, c \in Contents}
TurnSeqs == UNION {[1..k -> Turns] : k \in 0..MaxTurns}

isSystem(msg) == msg.role = "system"
notSystem(msg) == msg.role # "system"

\* koishiMessages.find(msg => msg.role === 'system')?.content || ''
findSystemMessage(koishiMessages) ==
  LET found == SelectSeq(koishiMessages, isSystem)
  IN IF found = << >> THEN EmptyStr ELSE found[1].content

\* ClaudeAdapter.formatMessages with `'user' ? 'user' : 'assistant'` as the role map.
claude_formatMessages_foldsToAssistant(koishiMessages) ==
  LET conversationMessages == SelectSeq(koishiMessages, notSystem)
  IN [systemMessage |-> findSystemMessage(koishiMessages),
      messages |-> [i \in 1..Len(conversationMessages) |->
         [role |-> IF conversationMessages[i].role = "user"
                   THEN "user" ELSE "assistant",
          content |-> conversationMessages[i].content]]]

\* ClaudeAdapter.formatMessages
claude_formatMessages(koishiMessages) ==
  LET conversationMessages == SelectSeq(koishiMessages, notSystem)
  IN [systemMessage |-> findSystemMessage(koishiMessages),
      messages |-> [i \in 1..Len(conversationMessages) |->
         [role |-> IF conversationMessages[i].role = "assistant"
                   THEN "assistant" ELSE "user",
          content |-> conversationMessages[i].content]]]

\* `系统指令: ${systemMessage}`
SystemInstruction(systemMessage) == <<"system instruction: ">> \o systemMessage
\* '我明白了，我会按照指示行动。有什么可以帮助你的吗？'
Acknowledgement == <<"understood">>
\* '你好'
Hello == <<"hello">>
GeminiTurn(role, text) == [role |-> role, parts |-> <<[text |-> text]>>]

\* The messages GeminiAdapter.formatMessages pushes before its final check.
gemini_pushed(koishiMessages) ==
  LET systemMessage == findSystemMessage(koishiMessages)
      conversation == SelectSeq(koishiMessages, notSystem)
  IN (IF systemMessage # EmptyStr
      THEN <<GeminiTurn("user", SystemInstruction(systemMessage)),
             GeminiTurn("model", Acknowledgement)>>
      ELSE << >>)
     \o [i \in 1..Len(conversation) |->
           GeminiTurn(IF conversation[i].role = "user" THEN "user" ELSE "model",
                      conversation[i].content)]

\* GeminiAdapter.formatMessages without the final unshift.
gemini_formatMessages_noFiller(koishiMessages) == gemini_pushed(koishiMessages)

\* GeminiAdapter.formatMessages
gemini_formatMessages(koishiMessages) ==
  LET geminiMessages == gemini_pushed(koishiMessages)
  IN IF Len(geminiMessages) = 0 \/ geminiMessages[1].role # "user"
     THEN <<GeminiTurn("user", Hello)>> \o geminiMessages
     ELSE geminiMessages

program == <<config, systemPrompt, chatModelContext, chatModelUsage, today,
             cleared, usesToday, sess>>

\* A call of `op` on `adapter` that has not returned yet.
Called(op, adapter) ==
  /\ adapterCall.op = op
  /\ adapterCall.adapter = adapter
  /\ adapterCall.outcome.kind = "none"

FormatCalls ==
  {[NoCall EXCEPT !.op = "formatMessages", !.adapter = a, !.messages = m] :
     a \in {"claude", "gemini"}, m \in TurnSeqs}

ClaudeFormatMessages ==
  /\ Called("formatMessages", "claude")
  /\ adapterCall' = [adapterCall EXCEPT
       !.system = claude_formatMessages(adapterCall.messages).systemMessage,
       !.formatted = claude_formatMessages(adapterCall.messages).messages,
       !.outcome.kind = "return"]
  /\ UNCHANGED program

GeminiFormatMessages ==
  /\ Called("formatMessages", "gemini")
  /\ adapterCall' = [adapterCall EXCEPT
       !.formatted = gemini_formatMessages(adapterCall.messages),
       !.outcome.kind = "return"]
  /\ UNCHANGED program

\* What fetch and the provider do in one call of generateResponse: the request
\* is aborted by the adapter's timer, fails in the network, or is answered
\* with a status, an error message in the body (error.error.message) and,
\* when ok, the parsed data.
Statuses == {"200", "400", "401", "429", "500"}
ok(status) == status = "200"
statusText(status) ==
  CASE status = "200" -> "OK"
    [] status = "400" -> "Bad Request"
    [] status = "401" -> "Unauthorized"
    [] status = "429" -> "Too Many Requests"
    [] OTHER -> "Internal Server Error"
Details == {EmptyStr, <<"Invalid API key">>, <<"insufficient_quota">>}
Texts == {<<" ", "r">>, EmptyStr}
\* candidate: choices[0].message, content[0] or candidates[0] is there;
\* content: candidates[0].content.parts is there (Gemini).
Data == [candidate : BOOLEAN, content : BOOLEAN,
         finishReason : {"STOP", "SAFETY"}, text : Texts]
Fetches ==
  {[NoCall EXCEPT !.fetch = "abort"], [NoCall EXCEPT !.fetch = "network"]}
  \cup {[NoCall EXCEPT !.fetch = "response", !.status = st, !.detail = dt] :
          st \in Statuses \ {"200"}, dt \in Details}
  \cup {[NoCall EXCEPT !.fetch = "response", !.status = "200", !.data = da] :
          da \in Data}

Err(name, message) == [name |-> name, message |-> message]
NoError == Err("none", EmptyStr)
\* '请求超时，请稍后再试'
AdapterTimeoutMessage == <<"request timed out">>
\* '请求过于频繁，请稍后再试'
RateLimitedMessage == <<"too many requests">>
\* 'API密钥无效或已过期'
UnauthorizedMessage == <<"API key invalid or expired">>
\* 'API密钥无效'
InvalidKeyMessage == <<"API key invalid">>
\* 'API配额已用尽'
QuotaMessage == <<"API quota used up">>
\* '收到无效的API响应'
InvalidResponseMessage == <<"invalid API response">>
\* '抱歉，您的请求触发了内容安全策略，我无法提供相关内容。'
SafetyText == <<"blocked by the content safety policy">>

\* `API请求失败: ${response.status} ${response.statusText}` and the suffix each
\* adapter appends for the error of the body.
requestFailed(status, suffix) ==
  <<"API request failed: ", status, " ", statusText(status)>> \o suffix
openai_suffix(detail) == IF detail # EmptyStr THEN <<": ">> \o detail ELSE << >>
\* ': ' + error.error, the error of the body being an object
claude_suffix(detail) == IF detail # EmptyStr THEN <<": ", "[object Object]">> ELSE << >>
gemini_suffix(detail) == IF detail # EmptyStr THEN <<": ">> \o detail ELSE << >>

\* String.prototype.includes on the pieces a message is made of.
includes(message, needle) ==
  \E i \in 1..Len(message) :
    \/ message[i] = needle
    \/ message[i] = "insufficient_quota" /\ needle = "quota"

\* What the try block throws before the catch block sees it.
fetchError(call) ==
  IF call.fetch = "abort" THEN Err("AbortError", <<"This operation was aborted">>)
  ELSE IF call.fetch = "network" THEN Err("TypeError", <<"fetch failed">>)
  ELSE NoError

Returned(text) == [kind |-> "return", text |-> text]
Thrown(message) == [kind |-> "throw", text |-> message]

\* OpenAIAdapter.generateResponse: the catch block
openai_catch(error) ==
  IF error.name = "AbortError" THEN AdapterTimeoutMessage
  ELSE IF includes(error.message, "429") THEN RateLimitedMessage
  ELSE IF includes(error.message, "401") THEN UnauthorizedMessage
  ELSE IF includes(error.message, "insufficient_quota") THEN QuotaMessage
  ELSE error.message

\* OpenAIAdapter.generateResponse
openai_generateResponse(call) ==
  LET error ==
        IF call.fetch # "response" THEN fetchError(call)
        ELSE IF ~ok(call.status)
          THEN Err("Error", requestFailed(call.status, openai_suffix(call.detail)))
        ELSE IF ~call.data.candidate THEN Err("Error", InvalidResponseMessage)
        ELSE NoError
  IN IF error = NoError THEN Returned(trim(call.data.text))
     ELSE Thrown(openai_catch(error))

\* ClaudeAdapter.generateResponse: the catch block
claude_catch(error) ==
  IF error.name = "AbortError" THEN AdapterTimeoutMessage
  ELSE IF includes(error.message, "429") THEN RateLimitedMessage
  ELSE IF includes(error.message, "401") THEN UnauthorizedMessage
  ELSE IF includes(error.message, "quota") THEN QuotaMessage
  ELSE error.message

\* ClaudeAdapter.generateResponse
claude_generateResponse(call) ==
  LET error ==
        IF call.fetch # "response" THEN fetchError(call)
        ELSE IF ~ok(call.status)
          THEN Err("Error", requestFailed(call.status, claude_suffix(call.detail)))
        ELSE IF ~call.data.candidate \/ call.data.text = EmptyStr
          THEN Err("Error", InvalidResponseMessage)
        ELSE NoError
  IN IF error = NoError THEN Returned(trim(call.data.text))
     ELSE Thrown(claude_catch(error))

\* GeminiAdapter.generateResponse: the catch block
gemini_catch(error) ==
  IF error.name = "AbortError" THEN AdapterTimeoutMessage
  ELSE IF includes(error.message, "429") THEN RateLimitedMessage
  ELSE IF includes(error.message, "400") /\ includes(error.message, "Invalid API key")
    THEN InvalidKeyMessage
  ELSE IF includes(error.message, "quota") THEN QuotaMessage
  ELSE error.message

\* GeminiAdapter.generateResponse
gemini_generateResponse(call) ==
  LET error ==
        IF call.fetch # "response" THEN fetchError(call)
        ELSE IF ~ok(call.status)
          THEN Err("Error", requestFailed(call.status, gemini_suffix(call.detail)))
        ELSE IF ~call.data.candidate \/ ~call.data.content
          THEN Err("Error", InvalidResponseMessage)
        ELSE NoError
  IN IF error # NoError THEN Thrown(gemini_catch(error))
     ELSE IF call.data.finishReason = "SAFETY" THEN Returned(SafetyText)
     ELSE Returned(trim(call.data.text))

GenerateCalls ==
  {[call EXCEPT !.op = "generateResponse", !.adapter = a] :
     a \in {"openai", "claude", "gemini"}, call \in Fetches}

OpenAIGenerateResponse ==
  /\ Called("generateResponse", "openai")
  /\ adapterCall' = [adapterCall EXCEPT !.outcome = openai_generateResponse(adapterCall)]
  /\ UNCHANGED program

ClaudeGenerateResponse ==
  /\ Called("generateResponse", "claude")
  /\ adapterCall' = [adapterCall EXCEPT !.outcome = claude_generateResponse(adapterCall)]
  /\ UNCHANGED program

GeminiGenerateResponse ==
  /\ Called("generateResponse", "gemini")
  /\ adapterCall' = [adapterCall EXCEPT !.outcome = gemini_generateResponse(adapterCall)]
  /\ UNCHANGED program

\* The race of createMessageHandler, in seconds: the provider answers after
\* `duration`, the adapter aborts its request after AdapterTimeout, and the
\* handler's own timer fires after (config.responseTimeout || 60).
AdapterTimeout == 60
DefaultResponseTimeout == 60
ResponseTimeouts == {0, 30, 60, 120}
Durations == {10, 45, 60, 90, 150}

\* generateResponse of a built-in adapter against a provider that answers ok
\* with `text` after `duration`: when and how the promise settles.  At equal
\* times either timer order is possible.
timedGenerateResponse(duration, text) ==
  {[at |-> duration, outcome |-> Returned(trim(text))] :
     x \in {y \in {duration} : y <= AdapterTimeout}}
  \cup {[at |-> AdapterTimeout, outcome |-> Thrown(AdapterTimeoutMessage)] :
          x \in {y \in {duration} : y >= AdapterTimeout}}

\* (config.responseTimeout || 60)
effectiveTimeout(responseTimeout) ==
  IF responseTimeout = 0 THEN DefaultResponseTimeout ELSE responseTimeout

\* What the handler returns for each way the race can settle.
raceGenerateResponse(responseTimeout, duration, text) ==
  LET timeout == effectiveTimeout(responseTimeout)
      settled == timedGenerateResponse(duration, text)
  IN {IF g.outcome.kind = "return" THEN Returned(g.outcome.text)
      ELSE Returned(Apology(g.outcome.text)) : g \in {h \in settled : h.at <= timeout}}
     \cup {Returned(Apology(TimeoutMessage)) : g \in {h \in settled : h.at >= timeout}}

RaceCalls ==
  {[NoCall EXCEPT !.op = "race", !.adapter = a, !.fetch = "response",
                  !.status = "200",
                  !.data = [candidate |-> TRUE, content |-> TRUE,
                            finishReason |-> "STOP", text |-> <<" ", "r">>],
                  !.responseTimeout = t, !.duration = d] :
     a \in {"openai", "claude", "gemini"}, t \in ResponseTimeouts, d \in Durations}

RaceGenerateResponse ==
  /\ adapterCall.op = "race"
  /\ adapterCall.outcome.kind = "none"
  /\ \E result \in raceGenerateResponse(adapterCall.responseTimeout,
                       adapterCall.duration, adapterCall.data.text) :
       adapterCall' = [adapterCall EXCEPT !.outcome = result]
  /\ UNCHANGED program

InitAdapters ==
  /\ contextSize = 1
  /\ systemPrompt = <<"P">>
  /\ triggerRatio = FullRatio
  /\ triggerPrefix = EmptyStr
  /\ triggerPrivate = TRUE
  /\ triggerGroup = FALSE
  /\ usageEnabled = FALSE
  /\ maxMessagesPerUser = 1
  /\ chatModelContext = [u \in Ids |-> NoContextRecord]
  /\ chatModelUsage = [u \in Ids |-> NoUsageRecord]
  /\ today = 1
  /\ cleared = [u \in Ids |-> FALSE]
  /\ usesToday = [u \in Ids |-> 0]
  /\ sess = [p \in 1..1 |-> Idle]
  /\ adapterCall \in FormatCalls \cup GenerateCalls \cup RaceCalls

NextAdapters ==
  \/ ClaudeFormatMessages
  \/ GeminiFormatMessages
  \/ OpenAIGenerateResponse
  \/ ClaudeGenerateResponse
  \/ GeminiGenerateResponse
  \/ RaceGenerateResponse

SpecAdapters == InitAdapters /\ [][NextAdapters]_vars

\* ---------------------------------------------------------------- cap loop
\* The while loop of createMessageHandler one iteration at a time, entered
\* with any loaded context and any contextSize the schema accepts
\* (Schema.number() has no lower bound).
ContextSizes == (-2)..MaxN

\* The loop condition holds: one more userContext.splice(1, 2).
CapLoopSplice(p) ==
  /\ sess[p].pc = "capLoop"
  /\ Len(sess[p].userContext) > contextSize * 2 + 1
  /\ sess' = [sess EXCEPT ![p] = [@ EXCEPT !.userContext = splice_1_2(@),
                                           !.iteration = 1 - @]]
  /\ UNCHANGED <<config, adapterCall, systemPrompt, chatModelContext, chatModelUsage, today, cleared, usesToday>>

\* The loop condition fails: the system prompt is ensured and
\* generateResponse is called.
CapLoopExit(p) ==
  /\ sess[p].pc = "capLoop"
  /\ ~(Len(sess[p].userContext) > contextSize * 2 + 1)
  /\ sess' = [sess EXCEPT ![p] =
       [@ EXCEPT !.pc = "generate",
                 !.userContext = ensureSystemPrompt(@, systemPrompt),
                 !.prompt = systemPrompt,
                 !.invoked = TRUE]]
  /\ UNCHANGED <<config, adapterCall, systemPrompt, chatModelContext, chatModelUsage, today, cleared, usesToday>>

\* An accepted message of u1 right after the push of its user turn.
InitCapLoop ==
  /\ contextSize \in ContextSizes
  /\ systemPrompt = <<"P">>
  /\ triggerRatio = FullRatio
  /\ triggerPrefix = EmptyStr
  /\ triggerPrivate = TRUE
  /\ triggerGroup = FALSE
  /\ usageEnabled = FALSE
  /\ maxMessagesPerUser = 1
  /\ chatModelContext = [u \in Ids |-> NoContextRecord]
  /\ chatModelUsage = [u \in Ids |-> NoUsageRecord]
  /\ today = 1
  /\ cleared = [u \in Ids |-> FALSE]
  /\ usesToday = [u \in Ids |-> 0]
  /\ \E loaded \in TurnSeqs :
       sess = [p \in 1..1 |->
         [Idle EXCEPT !.pc = "capLoop", !.userId = "u1", !.channelId = "u1",
                      !.rawContent = <<"hi">>, !.content = <<"hi">>,
                      !.loaded = loaded,
                      !.userContext = Append(loaded, Turn("user", <<"hi">>))]]
  /\ adapterCall = NoCall

NextCapLoop ==
  \/ \E p \in DOMAIN sess : CapLoopSplice(p)
  \/ \E p \in DOMAIN sess : CapLoopExit(p)

\* The loop is synchronous code: an iteration that can run does run.
SpecCapLoop ==
  /\ InitCapLoop
  /\ [][NextCapLoop]_vars
  /\ WF_vars(NextCapLoop)

\* Two messages in flight at once on one calendar date, usage limiting
\* enabled with the limit 1.
InitConcurrentUsage ==
  /\ contextSize = 1
  /\ systemPrompt = <<"P">>
  /\ triggerRatio = FullRatio
  /\ triggerPrefix = <<"!">>
  /\ triggerPrivate = TRUE
  /\ triggerGroup = FALSE
  /\ usageEnabled = TRUE
  /\ maxMessagesPerUser = 1
  /\ chatModelContext = [u \in Ids |-> NoContextRecord]
  /\ chatModelUsage = [u \in Ids |-> NoUsageRecord]
  /\ today = 1
  /\ cleared = [u \in Ids |-> FALSE]
  /\ usesToday = [u \in Ids |-> 0]
  /\ sess = [p \in 1..2 |-> Idle]
  /\ adapterCall = NoCall

\* The steps of a message while the date does not change.
NextConcurrentUsage ==
  \/ \E p \in DOMAIN sess : Receive(p)
  \/ \E p \in DOMAIN sess : CheckUsage(p)
  \/ \E p \in DOMAIN sess : GetContext(p)
  \/ \E p \in DOMAIN sess : GenerateResponse(p)
  \/ \E p \in DOMAIN sess : GenerateFails(p)
  \/ \E p \in DOMAIN sess : LateResult(p)
  \/ \E p \in DOMAIN sess : SaveSet(p)
  \/ \E p \in DOMAIN sess : SaveCreate(p)
  \/ \E p \in DOMAIN sess : SendReply(p)
  \/ \E p \in DOMAIN sess : UpdateGet(p)
  \/ \E p \in DOMAIN sess : UpdateWrite(p)
  \/ \E p \in DOMAIN sess : Finish(p)

SpecConcurrentUsage == InitConcurrentUsage /\ [][NextConcurrentUsage]_vars

\* ================================================================== claims
Persisted(u) == chatModelContext[u].context
\* The step in which message p persists its context (set or create).
Saves(p) == ~sess[p].saved /\ sess'[p].saved

\* C1: for every contextSize N >= 0, the context persisted for a user is
\* empty, or has at most 2N+1 entries and a system entry at index 0.
C1_PersistedWithinCap ==
  \A u \in Ids :
    \/ Persisted(u) = << >>
    \/ /\ Len(Persisted(u)) <= 2 * contextSize + 1
       /\ Persisted(u)[1].role = "system"

\* The entries after the system entry alternate user, assistant and end with
\* an assistant entry.
AlternatingTail(a) ==
  /\ Len(a) % 2 = 1
  /\ \A i \in 2..Len(a) : a[i].role = IF i % 2 = 0 THEN "user" ELSE "assistant"

\* Every step of the cap loop on `a` removes one user entry and the assistant
\* entry after it.
RECURSIVE EvictsPairs(_, _)
EvictsPairs(a, n) ==
  IF Len(a) > n * 2 + 1
  THEN /\ Len(a) >= 3
       /\ a[2].role = "user"
       /\ a[3].role = "assistant"
       /\ splice_1_2(a)[1] = a[1]
       /\ Len(splice_1_2(a)) = Len(a) - 2
       /\ EvictsPairs(splice_1_2(a), n)
  ELSE TRUE

\* C2: for every contextSize N >= 0, each eviction step of the handler removes
\* exactly one user+assistant pair and never the system entry, and every
\* persisted context is a system entry followed by user, assistant pairs.
C2_EvictsWholePairs ==
  /\ \A u \in Ids :
       Persisted(u) # << >> =>
         Persisted(u)[1].role = "system" /\ AlternatingTail(Persisted(u))
  /\ \A p \in DOMAIN sess :
       sess[p].pc = "getContext" =>
         EvictsPairs(Append(getUserContext(chatModelContext[sess[p].userId]),
                            Turn("user", sess[p].content)), contextSize)

SystemEntries(a) == {i \in 1..Len(a) : a[i].role = "system"}

\* C3: the context a successful turn persisted has exactly one system entry,
\* at index 0, whose content is the system prompt configured at that turn; it
\* is the user's stored context until the next write.
C3_OneCurrentSystemPrompt ==
  \A p \in DOMAIN sess :
    sess[p].saved =>
      LET a == sess[p].userContext
          u == sess[p].userId
      IN /\ SystemEntries(a) = {1}
         /\ a[1].content = sess[p].prompt
         /\ sess[p].prompt = systemPrompt
         /\ \/ Persisted(u) = a
            \/ cleared[u] /\ Persisted(u) = << >>

\* A turn was persisted whose loaded context held another system prompt.
C3_Witness ==
  \E p \in DOMAIN sess :
    /\ sess[p].saved
    /\ sess[p].loaded # << >>
    /\ sess[p].loaded[1].content # sess[p].prompt
    /\ Persisted(sess[p].userId) = sess[p].userContext

\* C4: when the model call fails (an adapter error, or the handler's timeout
\* wins the race) the handler returns the apology that embeds the error
\* message, the middleware goes on to send it, and the message stores nothing:
\* the persisted context is the one the handler loaded (or that context
\* cleared by a clear command issued meanwhile).
C4_FailureKeepsContext ==
  \A p \in DOMAIN sess :
    sess[p].error \in Errors =>
      LET u == sess[p].userId IN
        /\ sess[p].reply = Apology(sess[p].error)
        /\ sess[p].pc \in {"send", "updateGet", "updateWrite", "done"}
        /\ ~sess[p].saved
        /\ \/ getUserContext(chatModelContext[u]) = sess[p].loaded
           \/ cleared[u] /\ getUserContext(chatModelContext[u]) = << >>

\* A model call failed by the handler's timeout, for a user with stored turns,
\* and the apology was sent.
C4_Witness ==
  \E p \in DOMAIN sess :
    /\ sess[p].error = TimeoutMessage
    /\ sess[p].loaded # << >>
    /\ sess[p].sent = <<Apology(TimeoutMessage)>>
    /\ Persisted(sess[p].userId) = sess[p].loaded

\* C5: after a clear, with no other write of that user's context in between, a
\* load returns the empty sequence; the clear neither creates nor deletes the
\* record; and the next successful turn persists exactly
\* [system, user, assistant].
C5_ClearThenFresh ==
  [][/\ \A u \in Ids :
          cleared'[u] => getUserContext(chatModelContext'[u]) = << >>
     /\ \A u \in Users :
          ClearContext(u) => chatModelContext'[u].exists = chatModelContext[u].exists
     /\ \A p \in DOMAIN sess :
          Saves(p) /\ sess[p].afterClear =>
            chatModelContext'[sess[p].userId].context =
              <<Turn("system", sess[p].prompt), Turn("user", sess[p].content),
                Turn("assistant", sess[p].reply)>>]_vars

\* A turn that loaded the context right after a clear was persisted.
C5_Witness ==
  \E p \in DOMAIN sess :
    /\ sess[p].afterClear
    /\ sess[p].saved
    /\ chatModelContext[sess[p].userId].exists
    /\ Len(Persisted(sess[p].userId)) = 3

\* C6: with a limit M >= 1 and messages processed one after another, a check
\* made once M uses were recorded for today's date denies (the notice is sent,
\* the model is not invoked); a check that finds a record of another date
\* allows, after setting dailyCount to 0 and lastResetDate to the check's date.
C6_DailyLimit ==
  [][\A p \in DOMAIN sess :
       LET u == sess[p].userId IN
         /\ CheckUsage(p) /\ maxMessagesPerUser >= 1 =>
              /\ usesToday[u] >= maxMessagesPerUser =>
                   /\ sess'[p].pc = "limited"
                   /\ sess'[p].sent = <<LimitNotice>>
                   /\ ~sess'[p].invoked
              /\ chatModelUsage[u].exists /\ chatModelUsage[u].lastResetDate # today =>
                   sess'[p].pc = "resetUsage" /\ sess'[p].today = today
         /\ ResetUsage(p) /\ maxMessagesPerUser >= 1 =>
              /\ chatModelUsage'[u] = [exists |-> TRUE, dailyCount |-> 0,
                                        lastResetDate |-> sess[p].today]
              /\ sess'[p].pc = "getContext"]_vars

\* On the second date, a message was denied after M >= 1 uses of that date.
C6_Witness ==
  \E p \in DOMAIN sess :
    /\ sess[p].pc = "limited"
    /\ today > 1
    /\ maxMessagesPerUser >= 1
    /\ usesToday[sess[p].userId] = maxMessagesPerUser

\* C7: checkUsageLimit returns true exactly when there is no record, or the
\* stored date is not today, or dailyCount < maxMessagesPerUser, for every
\* configured maxMessagesPerUser including 0; with the stored date today it
\* issues no write.
C7_AllowedIffUnderConfiguredLimit ==
  [][\A p \in DOMAIN sess :
       CheckUsage(p) =>
         LET record == chatModelUsage[sess[p].userId] IN
           /\ sess'[p].pc # "limited" <=>
                \/ ~record.exists
                \/ record.lastResetDate # today
                \/ record.dailyCount < maxMessagesPerUser
           /\ record.exists /\ record.lastResetDate = today =>
                sess'[p].usageWrite = NoUsageWrite]_vars

\* C8: with usage limiting enabled, a message whose turn was persisted has
\* recorded exactly one use when the middleware returns; recording a use
\* creates the record with count 1, resets it to 1 on a new date, and adds one
\* otherwise.
C8_AcceptedTurnRecorded ==
  [][\A p \in DOMAIN sess :
       /\ usageEnabled /\ sess'[p].saved /\ sess'[p].pc \in Finished =>
            sess'[p].recorded = 1
       /\ UpdateWrite(p) =>
            LET old == chatModelUsage[sess[p].userId]
                new == chatModelUsage'[sess[p].userId]
            IN /\ new.exists
               /\ new.dailyCount =
                    IF ~old.exists \/ old.lastResetDate # sess[p].today
                    THEN 1 ELSE old.dailyCount + 1]_vars

\* C9: a message of the bot's own identity is ignored under every
\* configuration: it reaches neither the usage limiter nor the model, nothing
\* is sent for it, and no record is stored under its identity.
C9_SelfIgnored ==
  /\ \A p \in DOMAIN sess :
       sess[p].userId = SelfId =>
         /\ sess[p].pc \in {"idle", "ignored"}
         /\ ~sess[p].invoked
         /\ sess[p].sent = << >>
  /\ chatModelContext[SelfId] = NoContextRecord
  /\ chatModelUsage[SelfId] = NoUsageRecord

\* A message of the bot's identity was ignored that every other check of the
\* gate lets through.
C9_Witness ==
  \E p \in DOMAIN sess :
    /\ sess[p].userId = SelfId
    /\ sess[p].pc = "ignored"
    /\ ~sess[p].handled
    /\ triggerPrivate /\ triggerGroup /\ triggerRatio = FullRatio
    /\ ~prefixMissing(sess[p].rawContent)
    /\ strippedContent(sess[p].rawContent) # EmptyStr

\* C10: with triggerRatio = 0 no message passes the trigger gate, whatever the
\* random draw in [0, 100).
C10_ZeroRatioNeverAccepts ==
  triggerRatio = 0 => \A p \in DOMAIN sess : sess[p].pc \in {"idle", "ignored"}

\* ------------------------------------------------------------ C11, C12
\* C11, C12: what the claims call a structurally valid message, stated on the
\* message as it arrived and the configuration alone.
ChannelKindEnabled(userId, channelId) ==
  IF channelId = userId THEN triggerPrivate ELSE triggerGroup

PrefixMatched(raw) ==
  triggerPrefix = EmptyStr \/ startsWith(raw, triggerPrefix)

AfterStripAndTrim(raw) == trim(substring(raw, Len(triggerPrefix)))

StructurallyValid(s) ==
  /\ ~s.handled
  /\ s.userId # SelfId
  /\ ChannelKindEnabled(s.userId, s.channelId)
  /\ PrefixMatched(s.rawContent)
  /\ AfterStripAndTrim(s.rawContent) # EmptyStr

\* C11: with triggerRatio = 100 every structurally valid message passes the
\* trigger gate, whatever the random draw: none is ignored, and with usage
\* limiting enabled the next step is the usage check.
C11_FullRatioAccepts ==
  [][\A p \in DOMAIN sess :
       (Receive(p) /\ triggerRatio = FullRatio /\ StructurallyValid(sess'[p])) =>
         sess'[p].pc = IF usageEnabled THEN "checkUsage" ELSE "getContext"]_vars

\* A valid group message with the prefix waits for the usage check under
\* triggerRatio = 100.
C11_Witness ==
  \E p \in DOMAIN sess :
    /\ triggerRatio = FullRatio
    /\ triggerPrefix # EmptyStr
    /\ sess[p].channelId = GroupChannel
    /\ StructurallyValid(sess[p])
    /\ sess[p].pc = "checkUsage"

\* C12: the model is invoked only for a message that next() did not consume,
\* whose channel kind is enabled, whose content starts with the configured
\* prefix and is non-empty after stripping the prefix and trimming; any other
\* message gets no reply, no model call and no write to context or usage.
C12_InvokedOnlyIfValid ==
  \A p \in DOMAIN sess :
    (sess[p].pc # "idle" /\ ~StructurallyValid(sess[p])) =>
      /\ sess[p].pc = "ignored"
      /\ ~sess[p].invoked
      /\ sess[p].sent = << >>
      /\ ~sess[p].saved
      /\ sess[p].recorded = 0
      /\ sess[p].usageWrite = NoUsageWrite

\* ------------------------------------------------------------------- C13
\* The step in which saveUserContext of message p settles.
SaveSettles(p) ==
  /\ sess[p].pc \in {"saveSet", "saveCreate"}
  /\ sess'[p].pc \notin {"saveSet", "saveCreate"}

\* C13: saveUserContext is an upsert: it settles without an error and leaves
\* the user's record holding exactly the turns it was given, whether or not a
\* record existed, also when two saves for a user without a record interleave
\* at their storage calls.
C13_SaveIsUpsert ==
  [][\A p \in DOMAIN sess :
       SaveSettles(p) =>
         /\ sess'[p].error = EmptyStr
         /\ chatModelContext'[sess[p].userId] =
              [exists |-> TRUE, context |-> sess[p].userContext]]_vars

\* ------------------------------------------------------------ C14 .. C17
ReturnedFrom(op, adapter) ==
  /\ adapterCall.op = op
  /\ adapterCall.adapter = adapter
  /\ adapterCall.outcome.kind # "none"

\* C14: whenever the provider's response carries the SAFETY finish reason,
\* Gemini's generateResponse returns the fixed text and does not throw,
\* whether or not the blocked candidate carries content parts.
C14_SafetyNeverThrown ==
  (/\ ReturnedFrom("generateResponse", "gemini")
   /\ adapterCall.fetch = "response" /\ ok(adapterCall.status)
   /\ adapterCall.data.candidate
   /\ adapterCall.data.finishReason = "SAFETY")
  => adapterCall.outcome = Returned(SafetyText)

\* The failure of a call as the provider produced it, before any adapter
\* looked at it.
ProviderFailed ==
  \/ adapterCall.fetch \in {"abort", "network"}
  \/ adapterCall.fetch = "response" /\ ~ok(adapterCall.status)

\* A failure none of the claim's three cases covers and that carries neither
\* a quota nor an invalid-key signal.
OtherFailure ==
  \/ adapterCall.fetch = "network"
  \/ /\ adapterCall.fetch = "response"
     /\ adapterCall.status \in {"400", "500"}
     /\ adapterCall.detail = EmptyStr

\* C15: each built-in adapter's generateResponse fails with the Timeout
\* message when its request was aborted, the RateLimited message on HTTP 429
\* and the Unauthorized message on HTTP 401, and passes any other failure
\* through with its original message.
C15_ErrorClassification ==
  (adapterCall.op = "generateResponse" /\ adapterCall.outcome.kind # "none"
     /\ ProviderFailed) =>
    /\ adapterCall.outcome.kind = "throw"
    /\ adapterCall.fetch = "abort" =>
         adapterCall.outcome.text = AdapterTimeoutMessage
    /\ (adapterCall.fetch = "response" /\ adapterCall.status = "429") =>
         adapterCall.outcome.text = RateLimitedMessage
    /\ (adapterCall.fetch = "response" /\ adapterCall.status = "401") =>
         adapterCall.outcome.text = UnauthorizedMessage
    /\ OtherFailure =>
         adapterCall.outcome.text =
           IF adapterCall.fetch = "network" THEN <<"fetch failed">>
           ELSE <<"API request failed: ", adapterCall.status, " ",
                  statusText(adapterCall.status)>>

\* The positions of the non-system turns of the input, and the k-th of them.
ConversationAt(messages) == {i \in 1..Len(messages) : messages[i].role # "system"}
NthConversation(messages, k) ==
  messages[CHOOSE i \in ConversationAt(messages) :
             Cardinality({j \in ConversationAt(messages) : j < i}) = k - 1]
SystemAt(messages) == {i \in 1..Len(messages) : messages[i].role = "system"}
FirstSystemContent(messages) ==
  IF SystemAt(messages) = {} THEN EmptyStr
  ELSE messages[CHOOSE i \in SystemAt(messages) :
                  \A j \in SystemAt(messages) : i <= j].content

\* The non-system turns in their order, user kept and every other role made
\* model, each as one text part.
GeminiConversation(messages) ==
  [k \in 1..Cardinality(ConversationAt(messages)) |->
     [role |-> IF NthConversation(messages, k).role = "user" THEN "user" ELSE "model",
      parts |-> <<[text |-> NthConversation(messages, k).content]>>]]

Synthetic(S) ==
  <<[role |-> "user", parts |-> <<[text |-> <<"system instruction: ">> \o S]>>],
    [role |-> "model", parts |-> <<[text |-> Acknowledgement]>>]>>

GeminiFilled(conversation) ==
  IF conversation = << >> \/ conversation[1].role # "user"
  THEN <<[role |-> "user", parts |-> <<[text |-> Hello]>>]>> \o conversation
  ELSE conversation

GeminiStartsWithUser ==
  /\ adapterCall.formatted # << >>
  /\ adapterCall.formatted[1].role = "user"

\* C16 as stated: Gemini's formatMessages yields a non-empty sequence starting
\* with a user turn; when the input has a system turn with non-empty content
\* S the output is the synthetic user turn containing S, the synthetic model
\* acknowledgement and then every non-system turn in order (user kept, others
\* model); otherwise a filler user turn is prepended when the result would
\* not start with a user turn.
C16_GeminiFormat ==
  ReturnedFrom("formatMessages", "gemini") =>
    LET messages == adapterCall.messages
        nonEmpty == {i \in SystemAt(messages) : messages[i].content # EmptyStr}
    IN /\ GeminiStartsWithUser
       /\ IF nonEmpty # {}
          THEN \E i \in nonEmpty :
                 adapterCall.formatted =
                   Synthetic(messages[i].content) \o GeminiConversation(messages)
          ELSE adapterCall.formatted = GeminiFilled(GeminiConversation(messages))

\* C16 amended: the same with S the content of the first system turn; when
\* that content is empty no synthetic turns are made, whatever later system
\* turns hold.
C16_GeminiFormatFirstSystem ==
  ReturnedFrom("formatMessages", "gemini") =>
    LET messages == adapterCall.messages
        S == FirstSystemContent(messages)
    IN /\ GeminiStartsWithUser
       /\ adapterCall.formatted =
            IF S # EmptyStr
            THEN Synthetic(S) \o GeminiConversation(messages)
            ELSE GeminiFilled(GeminiConversation(messages))

\* [system S, user hi] was formatted to three entries user, model, user.
C16_Witness ==
  /\ ReturnedFrom("formatMessages", "gemini")
  /\ adapterCall.messages = <<Turn("system", <<"S">>), Turn("user", <<"hi">>)>>
  /\ Len(adapterCall.formatted) = 3
  /\ adapterCall.formatted[1].role = "user"
  /\ adapterCall.formatted[2].role = "model"
  /\ adapterCall.formatted[3].role = "user"

\* C17: Anthropic's formatMessages returns as system field the content of the
\* first system turn (empty when there is none) and as turns the non-system
\* input turns in order, content unchanged, assistant kept and every other
\* role made user.
C17_ClaudeFormat ==
  ReturnedFrom("formatMessages", "claude") =>
    LET messages == adapterCall.messages IN
      /\ adapterCall.system = FirstSystemContent(messages)
      /\ Len(adapterCall.formatted) = Cardinality(ConversationAt(messages))
      /\ \A k \in 1..Len(adapterCall.formatted) :
           /\ adapterCall.formatted[k].content = NthConversation(messages, k).content
           /\ adapterCall.formatted[k].role =
                IF NthConversation(messages, k).role = "assistant"
                THEN "assistant" ELSE "user"

\* Two system turns, a tool turn and an assistant turn were formatted.
C17_Witness ==
  /\ ReturnedFrom("formatMessages", "claude")
  /\ Len(adapterCall.messages) = 3
  /\ adapterCall.messages[1] = Turn("system", <<"S">>)
  /\ adapterCall.messages[2].role = "tool"
  /\ adapterCall.messages[3].role = "assistant"
  /\ adapterCall.system = <<"S">>
  /\ Len(adapterCall.formatted) = 2

\* ------------------------------------------------------------------- C19
\* C19: with responseTimeout = T seconds, whatever T, a provider call that
\* completes in less than T seconds is delivered as the reply and is not
\* reported as a timeout.
C19_ConfiguredTimeLimit ==
  (adapterCall.op = "race" /\ adapterCall.outcome.kind # "none"
     /\ adapterCall.duration < adapterCall.responseTimeout) =>
    adapterCall.outcome = Returned(trim(adapterCall.data.text))

\* ------------------------------------------------------------------- C20
\* C20: when the handler's timeout settled the race first, the provider
\* result that arrives later is discarded: the step in which it arrives
\* writes neither table and sends nothing, and the message that timed out
\* persists no context.
C20_LateResultDiscarded ==
  [][\A p \in DOMAIN sess :
       LateResult(p) =>
         /\ chatModelContext' = chatModelContext
         /\ chatModelUsage' = chatModelUsage
         /\ sess'[p].sent = sess[p].sent
         /\ sess'[p].usageWrite = sess[p].usageWrite
         /\ ~sess'[p].saved]_vars

\* The late result of a timed-out message arrived after the apology was
\* sent, while the other message of the same user had stored its context.
C20_Witness ==
  \E p \in DOMAIN sess :
    /\ sess[p].late = "discarded"
    /\ sess[p].error = TimeoutMessage
    /\ sess[p].sent = <<Apology(TimeoutMessage)>>
    /\ chatModelContext[sess[p].userId].exists

\* ------------------------------------------------------------------- C18
\* C18: a storage failure at any storage step (usage check, context load,
\* context save, usage count update) never leaves the middleware as an
\* exception, and once the middleware has returned the last thing it sent to
\* the user is an error reply carrying the failure.
C18_StorageFailureSurfaced ==
  \A p \in DOMAIN sess :
    sess[p].failed # "none" =>
      /\ sess[p].pc # "thrown"
      /\ sess[p].pc \in Finished =>
           /\ sess[p].sent # << >>
           /\ sess[p].sent[Len(sess[p].sent)] \in
                {Apology(StorageMessage), ProcessingError(StorageMessage)}

\* ------------------------------------------------------------------- C21
\* C21: for every contextSize N >= 0 and every history of successful turns,
\* failed turns and clears, the sequence the handler passes to the adapter is
\* one system turn followed by strictly alternating user/assistant turns, the
\* last being the new user turn with the incoming message's content.
C21_AdapterInputShape ==
  \A p \in DOMAIN sess :
    sess[p].pc = "generate" =>
      LET a == sess[p].userContext IN
        /\ Len(a) >= 2
        /\ Len(a) % 2 = 0
        /\ a[1].role = "system"
        /\ \A i \in 2..Len(a) :
             a[i].role = IF i % 2 = 0 THEN "user" ELSE "assistant"
        /\ a[Len(a)] = Turn("user", sess[p].content)

\* ------------------------------------------------------------------- C22
\* C22: the cap loop terminates for every contextSize the schema accepts,
\* negative values included, and every loaded context: every accepted
\* message eventually reaches the model call.
C22_CapLoopTerminates ==
  <>(\A p \in DOMAIN sess : sess[p].pc = "generate")

\* ------------------------------------------------------------------- C23
\* The messages of user u being processed for which the model was invoked.
InvokedFor(u) == {p \in DOMAIN sess : sess[p].userId = u /\ sess[p].invoked}

\* The messages of user u being processed that were answered by the model
\* and have completed updateUsageCount.
AnsweredFor(u) ==
  {p \in DOMAIN sess : sess[p].userId = u /\ sess[p].invoked /\ sess[p].pc = "done"}

\* dailyCount as far as it counts for today's date.
CountToday(u) ==
  IF chatModelUsage[u].exists /\ chatModelUsage[u].lastResetDate = today
  THEN chatModelUsage[u].dailyCount ELSE 0

\* No increment is lost: every answered message is counted.
NoLostIncrement ==
  \A u \in Users : Cardinality(AnsweredFor(u)) <= CountToday(u)

\* C23: with usage limiting enabled and limit M, under any interleaving of
\* concurrently processed messages of one user on one date, the model is
\* invoked for at most M of them and dailyCount covers every reply sent: no
\* check passes on a stale count and no increment is lost.
C23_ConcurrentLimit ==
  usageEnabled =>
    /\ \A u \in Users : Cardinality(InvokedFor(u)) <= maxMessagesPerUser
    /\ NoLostIncrement

\* ------------------------------------------------------------------- C24
\* C24: once the clear command has run for a user, the persisted context
\* never again receives the turns of a message that was received before the
\* clear: a message that stores its context over a clear has loaded the
\* context after that clear.
C24_ClearIsFinal ==
  [][\A p \in DOMAIN sess :
       (Saves(p) /\ cleared[sess[p].userId]) => sess[p].afterClear]_vars

====
